---- MODULE Spec2Model ----
(***************************************************************************)
(* Strategy lifecycle of the trading bot: the per-ticker strategy slot of  *)
(* the Redis store, the evaluation tick of StrategyService and the target  *)
(* ladder of datatypes.Strategy.                                            *)
(*                                                                         *)
(* Prices are integers in units of 10^-6 dollar, so that the percentage    *)
(* factors of the code (x1.04, x0.975, x1.02, 1.5 ATR, 0.5 ATR) are exact. *)
(* Probabilities are integers in units of 0.001.                           *)
(* Python's None is NoneNum for a number and None for a strategy dict.     *)
(***************************************************************************)
EXTENDS Integers, Sequences, FiniteSets, TLC

\* ---------------------------------------------------------------- bounds
\* number of strategies locked in one behaviour of SpecLocks (caps the lock
\* clock)
MaxLocks == 2
\* length of the history list (two loops can archive without end)
MaxHistory == 2

\* ------------------------------------------------------ program constants
max_targets == 3
MinScore == 65
EntryProbability == 700

\* ------------------------------------------------------------ value sets
NoneNum == 0 - 1
None == [state |-> "None"]

LOCKED == "LOCKED"
COMPLETED == "COMPLETED"

\* the evaluation loops (pattern_evaluation_worker processes) of one ticker
Loops == {1, 2}

\* what a read of stocks:<ticker>:price can return; 0 is the default of a
\* missing key or a failed read
PriceReads == {0, 10000000, 10500000}

\* what a read of the last ATR / VWAP value can return
ATRReads == {NoneNum, 0, 200000}
VWAPReads == {NoneNum, 10200000}

\* the key levels a read of stocks:<ticker>:key_levels can return
KeyLevelReads ==
    { {},
      {[type |-> "support", price |-> 9900000],
       [type |-> "resistance", price |-> 10450000],
       [type |-> "resistance", price |-> 10480000]} }

\* raw weighted scores a pattern's criteria can add up to
RawScores == {60, 65}

\* states of the probability oracle: "raise" is an exception inside the
\* blend, "fallback" a missing or untrained model (or a failed prediction),
\* "ok" a trained model and the probability it gives to success
AIPredictions == {[kind |-> "raise"],
                  [kind |-> "fallback"],
                  [kind |-> "ok", success_probability |-> 900]}

\* the registered patterns of the model, in registration order
PatternOrder == <<"EarlyParabolicPattern">>
PatternNames == {PatternOrder[i] : i \in 1..Len(PatternOrder)}

Min(S) == CHOOSE x \in S : \A y \in S : x <= y

Truthy(x) == x # NoneNum /\ x # 0

\* x * num / den; the prices of the model are multiples of den, so the
\* division is exact and is done first to stay within 32 bits
Scale(x, num, den) == (x \div den) * num

\* ------------------------------------------------------------- datatypes
TargetLevel(price) == [price |-> price, achieved |-> FALSE]

\* Strategy.to_dict: every field but max_targets
ToDict(s) ==
    [name |-> s.name, state |-> s.state, entry_price |-> s.entry_price,
     target_price |-> s.target_price, stop_price |-> s.stop_price,
     lock_time |-> s.lock_time, buy_time |-> s.buy_time,
     probability |-> s.probability, match_score |-> s.match_score,
     completion_type |-> s.completion_type,
     completion_time |-> s.completion_time,
     target_history |-> s.target_history,
     current_target_index |-> s.current_target_index]

\* Strategy.from_dict: max_targets takes its default, an empty ladder is
\* seeded from a positive target_price
FromDict(d) ==
    [name |-> d.name, state |-> d.state, entry_price |-> d.entry_price,
     target_price |-> d.target_price, stop_price |-> d.stop_price,
     lock_time |-> d.lock_time, buy_time |-> d.buy_time,
     probability |-> d.probability, match_score |-> d.match_score,
     completion_type |-> d.completion_type,
     completion_time |-> d.completion_time,
     target_history |-> IF d.target_history = <<>> /\ d.target_price > 0
                        THEN <<TargetLevel(d.target_price)>>
                        ELSE d.target_history,
     current_target_index |-> d.current_target_index,
     max_targets |-> max_targets]

\* mutant: the ladder is not bounded
UpdateTargetBound_unbounded(s) == TRUE

\* Strategy.update_target: [s |-> the strategy afterwards, ok |-> the result]
UpdateTargetBound(s) == Len(s.target_history) < s.max_targets

UpdateTarget(s, new_target) ==
    IF s.target_history = <<>>
    THEN [s |-> [s EXCEPT !.target_history = <<TargetLevel(s.target_price)>>],
          ok |-> FALSE]
    ELSE LET i == s.current_target_index + 1
             current_target == s.target_history[i]
         IN IF ~current_target.achieved /\ new_target > current_target.price
            THEN LET marked == [s EXCEPT !.target_history[i].achieved = TRUE]
                 IN IF UpdateTargetBound(marked)
                    THEN [s |-> [marked EXCEPT
                                   !.target_history = Append(@, TargetLevel(new_target)),
                                   !.current_target_index = Len(marked.target_history),
                                   !.target_price = new_target],
                          ok |-> TRUE]
                    ELSE [s |-> marked, ok |-> FALSE]
            ELSE [s |-> s, ok |-> FALSE]

\* ------------------------------------------------------- pattern scorer
\* BasePattern.get_default_result
DefaultResult(name) ==
    [match_score |-> 0, pattern_name |-> name, entry_price |-> 0,
     target_price |-> 0, stop_price |-> 0, probability |-> 0]

Resistances(levels, above) ==
    {lv.price : lv \in {x \in levels : x.type = "resistance" /\ x.price > above}}
Supports(levels, below) ==
    {lv.price : lv \in {x \in levels : x.type = "support" /\ x.price < below}}
Max(S) == CHOOSE x \in S : \A y \in S : x >= y

\* get_targets of the two patterns, from the price and key levels it reads
GetTargets(name, price, levels) ==
    IF name = "EarlyParabolicPattern"
    THEN [entry |-> price, target |-> Scale(price, 104, 100),
          stop |-> Scale(price, 975, 1000)]
    ELSE [entry |-> price,
          target |-> IF Resistances(levels, price) # {}
                     THEN Min(Resistances(levels, price))
                     ELSE Scale(price, 102, 100),
          stop |-> IF Supports(levels, price) # {}
                   THEN Scale(Max(Supports(levels, price)), 995, 1000)
                   ELSE Scale(price, 985, 1000)]

\* <Pattern>.evaluate once validate_data has passed: raw is the weighted
\* score of the criteria, price and levels are what get_targets reads
Evaluate(name, raw, price, levels) ==
    IF raw >= MinScore
    THEN LET targets == GetTargets(name, price, levels)
         IN [match_score |-> raw, pattern_name |-> name,
             entry_price |-> targets.entry, target_price |-> targets.target,
             stop_price |-> targets.stop, probability |-> raw * 10]
    ELSE DefaultResult(name)

\* MLPipeline._fallback_probability_prediction: the heuristic probability
\* scaled by the match score
FallbackConfidence == 500

FallbackProbabilityPrediction(strategy_data) ==
    [success_probability |->
         (strategy_data.probability * strategy_data.match_score) \div 100,
     confidence_score |-> FallbackConfidence,
     ml_model_used |-> FALSE]

\* MLPipeline.predict_pattern_success: the model's answer, or the fallback
\* when there is no model or the prediction fails
PredictPatternSuccess(ai, strategy_data) ==
    IF ai.kind = "ok"
    THEN [success_probability |-> ai.success_probability,
          confidence_score |-> IF ai.success_probability >= 500
                               THEN ai.success_probability
                               ELSE 1000 - ai.success_probability,
          ml_model_used |-> TRUE]
    ELSE FallbackProbabilityPrediction(strategy_data)

\* mutant: the weights of the two kinds of answer are exchanged
AIWeight_exchanged(ai_prediction) == IF ai_prediction.ml_model_used THEN 3 ELSE 7

\* AIPatternEvaluator._get_ai_enhanced_probability: the weight of the
\* oracle's answer, in tenths
AIWeight(ai_prediction) == IF ai_prediction.ml_model_used THEN 7 ELSE 3

\* mutant: an exception inside the blend answers with the default 0.65
TechnicalOnly_default(result) ==
    [success_probability |-> 650, confidence_score |-> FallbackConfidence,
     ml_model_used |-> FALSE, ai_weight |-> 0]

\* the except branch: the technical probability alone
TechnicalOnly(result) ==
    [success_probability |-> result.probability,
     confidence_score |-> FallbackConfidence,
     ml_model_used |-> FALSE, ai_weight |-> 0]

GetAIEnhancedProbability(result, ai) ==
    IF ai.kind = "raise"
    THEN TechnicalOnly(result)
    ELSE LET ai_prediction == PredictPatternSuccess(ai, result)
             ai_weight == AIWeight(ai_prediction)
         IN [success_probability |->
                 (ai_prediction.success_probability * ai_weight
                  + result.probability * (10 - ai_weight)) \div 10,
             confidence_score |-> ai_prediction.confidence_score,
             ml_model_used |-> ai_prediction.ml_model_used,
             ai_weight |-> ai_weight]

BlendedProbability(result, ai) ==
    GetAIEnhancedProbability(result, ai).success_probability

WithAI(result, ai) == [result EXCEPT !.probability = BlendedProbability(result, ai)]

\* AIPatternEvaluator.evaluate_all_patterns: evals[i] is the enhanced result
\* of the i-th registered pattern; the surfaced ones, stably sorted by
\* descending probability
Surfaced(evals) == {i \in 1..Len(evals) : evals[i].match_score >= MinScore}

Best(evals) ==
    LET S == Surfaced(evals)
    IN CHOOSE i \in S : \A j \in S :
          \/ evals[i].probability > evals[j].probability
          \/ evals[i].probability = evals[j].probability /\ i <= j

\* what one evaluation of a pattern reads: the raw score of its criteria,
\* the price and key levels of get_targets, the oracle's answer
PatternInputs == [raw : RawScores, price : PriceReads,
                  levels : KeyLevelReads, ai : AIPredictions]

\* ------------------------------------------------------------- scenarios
\* A scenario fixes the sets the reads of a behaviour are drawn from and the
\* number of strategies it may lock.
\* Wide: every read independent and from the full set, one strategy.
Wide ==
    [prices |-> PriceReads, levels |-> KeyLevelReads, atrs |-> ATRReads,
     vwaps |-> VWAPReads, sells |-> BOOLEAN,
     patterns |-> PatternInputs, entries |-> PriceReads,
     metrics |-> PatternInputs \cup {[raise |-> TRUE]},
     locks |-> 1]

\* Narrow: a market with one price level to lock at, a higher one to reach
\* targets at, fixed key levels, ATR and VWAP, and a failing oracle; several
\* strategies in a row.
Narrow ==
    [prices |-> PriceReads \ {0}, levels |-> KeyLevelReads \ {{}},
     atrs |-> ATRReads \ {NoneNum, 0}, vwaps |-> VWAPReads \ {NoneNum},
     sells |-> BOOLEAN,
     patterns |-> {inp \in PatternInputs : /\ inp.price = Min(PriceReads \ {0})
                                           /\ inp.levels # {}
                                           /\ inp.ai.kind = "raise"},
     entries |-> {Min(PriceReads \ {0})},
     metrics |-> {[raise |-> TRUE]},
     locks |-> MaxLocks]

EvaluateAllPatterns(inp) ==
    [i \in 1..Len(PatternOrder) |->
        LET r == Evaluate(PatternOrder[i], inp[i].raw, inp[i].price, inp[i].levels)
        IN IF r.match_score >= MinScore THEN WithAI(r, inp[i].ai) ELSE r]

\* AIPatternEvaluator.evaluate_pattern: the enhanced result of one pattern,
\* or the empty dict when the evaluation raises
EmptyDict == [empty |-> TRUE]

EvaluatePattern(name, inp) ==
    IF inp \in PatternInputs
    THEN WithAI(Evaluate(name, inp.raw, inp.price, inp.levels), inp.ai)
    ELSE EmptyDict

\* --------------------------------------------------- strategy service
\* StrategyService._calculate_next_target; NoneNum when it returns None
CalculateNextTarget(levels, atr, current_target) ==
    IF Resistances(levels, current_target) # {}
    THEN Min(Resistances(levels, current_target))
    ELSE IF atr = NoneNum
         THEN NoneNum
         ELSE IF atr > 0
              THEN current_target + (atr * 3) \div 2
              ELSE Scale(current_target, 102, 100)

\* StrategyService._find_optimal_stop_adjustment; NoneNum when it returns None
FindOptimalStopAdjustment(current_price, vwap, atr, current_stop) ==
    IF vwap = NoneNum \/ atr = NoneNum
    THEN NoneNum
    ELSE IF current_price > vwap /\ vwap - atr \div 2 > current_stop
         THEN vwap - atr \div 2
         ELSE IF atr > 0 /\ current_price - (atr * 3) \div 2 > current_stop
              THEN current_price - (atr * 3) \div 2
              ELSE NoneNum

\* lines 91-94 of _evaluate_existing_strategy: the stop after the ratchet
RatchetAccepts(new_stop, stop_price) == Truthy(new_stop) /\ new_stop > stop_price

Ratchet(s, current_price, vwap, atr) ==
    LET new_stop == FindOptimalStopAdjustment(current_price, vwap, atr, s.stop_price)
    IN IF RatchetAccepts(new_stop, s.stop_price)
       THEN [s EXCEPT !.stop_price = new_stop]
       ELSE s

\* mutant: the fresh pattern's target is merged into the strategy
UpdateStrategyMetrics_target(strategy, current_pattern) ==
    IF current_pattern # EmptyDict
    THEN [strategy EXCEPT !.match_score = current_pattern.match_score,
                          !.probability = current_pattern.probability,
                          !.target_price = current_pattern.target_price]
    ELSE strategy

\* mutant: the fresh pattern's stop is merged into the strategy
UpdateStrategyMetrics_stop(strategy, current_pattern) ==
    IF current_pattern # EmptyDict
    THEN [strategy EXCEPT !.match_score = current_pattern.match_score,
                          !.probability = current_pattern.probability,
                          !.stop_price = current_pattern.stop_price]
    ELSE strategy

\* mutant: the fresh pattern's entry price is merged into the strategy
UpdateStrategyMetrics_entry(strategy, current_pattern) ==
    IF current_pattern # EmptyDict
    THEN [strategy EXCEPT !.match_score = current_pattern.match_score,
                          !.probability = current_pattern.probability,
                          !.entry_price = current_pattern.entry_price]
    ELSE strategy

\* StrategyService._update_strategy_metrics
UpdateStrategyMetrics(strategy, current_pattern) ==
    IF current_pattern # EmptyDict
    THEN [strategy EXCEPT !.match_score = current_pattern.match_score,
                          !.probability = current_pattern.probability]
    ELSE strategy

\* mutant: the state compared with is the wrong one
HasLockedStrategy_wrong_state(current_strategy) ==
    current_strategy # None /\ current_strategy.state = COMPLETED

\* line 21 of evaluate_strategy_lock
HasLockedStrategy(current_strategy) ==
    current_strategy # None /\ current_strategy.state = LOCKED

\* line 41 of _evaluate_existing_strategy
TargetReached(s, current_price) ==
    Truthy(s.target_price) /\ current_price >= s.target_price /\ s.buy_time # NoneNum

\* line 82 of _evaluate_existing_strategy
StopHit(s, current_price) == Truthy(s.stop_price) /\ current_price <= s.stop_price

\* what one run of _evaluate_existing_strategy reads from the store: the
\* price (line 37), the key levels and ATR of _calculate_next_target, the
\* sell signal, and the price, VWAP and ATR of _find_optimal_stop_adjustment
\* (one ATR read serves both, as no run uses the two)
TickInputs(R) == [price : R.prices, levels : R.levels, atr : R.atrs,
                  sell : R.sells, price2 : R.prices, vwap : R.vwaps]

\* what a tick on s reports besides its branch: whether the target was
\* reached, whether the sell-signal check ran and fired, whether the price
\* read at line 37 was at or below the stop
Observed(s, in, sell_checked) ==
    [reached |-> TargetReached(s, in.price),
     sell |-> sell_checked /\ s.buy_time # NoneNum /\ in.sell,
     below |-> in.price <= s.stop_price]

\* mutant: the stop check comes before the sell-signal check
Decide_stop_first(s, in) ==
    LET reached == TargetReached(s, in.price)
        new_target == IF reached
                      THEN CalculateNextTarget(in.levels, in.atr, s.target_price)
                      ELSE NoneNum
        upd == IF Truthy(new_target) THEN UpdateTarget(s, new_target)
               ELSE [s |-> s, ok |-> FALSE]
    IN IF reached /\ Truthy(new_target) /\ upd.ok
       THEN [kind |-> "target", ctype |-> "none", s |-> upd.s,
             obs |-> Observed(s, in, FALSE)]
       ELSE IF reached /\ Truthy(new_target)
       THEN [kind |-> "complete", ctype |-> "target", s |-> upd.s,
             obs |-> Observed(s, in, FALSE)]
       ELSE IF StopHit(s, in.price)
       THEN [kind |-> "complete", ctype |-> "stop", s |-> s,
             obs |-> Observed(s, in, TRUE)]
       ELSE IF s.buy_time # NoneNum /\ in.sell
       THEN [kind |-> "complete", ctype |-> "sell", s |-> s,
             obs |-> Observed(s, in, TRUE)]
       ELSE [kind |-> "hold", ctype |-> "none",
             s |-> Ratchet(s, in.price2, in.vwap, in.atr),
             obs |-> Observed(s, in, TRUE)]

\* the branch _evaluate_existing_strategy takes on the strategy object s
Decide(s, in) ==
    LET reached == TargetReached(s, in.price)
        new_target == IF reached
                      THEN CalculateNextTarget(in.levels, in.atr, s.target_price)
                      ELSE NoneNum
        upd == IF Truthy(new_target) THEN UpdateTarget(s, new_target)
               ELSE [s |-> s, ok |-> FALSE]
    IN IF reached /\ Truthy(new_target) /\ upd.ok
       THEN [kind |-> "target", ctype |-> "none", s |-> upd.s,
             obs |-> Observed(s, in, FALSE)]
       ELSE IF reached /\ Truthy(new_target)
       THEN [kind |-> "complete", ctype |-> "target", s |-> upd.s,
             obs |-> Observed(s, in, FALSE)]
       ELSE IF s.buy_time # NoneNum /\ in.sell
       THEN [kind |-> "complete", ctype |-> "sell", s |-> s,
             obs |-> Observed(s, in, TRUE)]
       ELSE IF StopHit(s, in.price)
       THEN [kind |-> "complete", ctype |-> "stop", s |-> s,
             obs |-> Observed(s, in, TRUE)]
       ELSE [kind |-> "hold", ctype |-> "none",
             s |-> Ratchet(s, in.price2, in.vwap, in.atr),
             obs |-> Observed(s, in, TRUE)]

\* every way one run of _evaluate_existing_strategy can go on s
Decisions(s, R) == {Decide(s, in) : in \in TickInputs(R)}

\* lines 185-195 of _complete_strategy divide by entry_price
ProfitLossRaises(s, final_price) ==
    s.buy_time # NoneNum /\ Truthy(final_price) /\ s.entry_price = 0

\* ----------------------------------------------------------------- state
VARIABLES
    slot,        \* stocks:<ticker>:strategy, the active strategy dict or None
    history,     \* stocks:<ticker>:strategy_history, the Redis list
    db,          \* the StrategyHistory rows of the database
    published,   \* how often each trade_signal was published, per strategy
    clock,       \* datetime.now() as used for lock_time
    pc,          \* per loop: where it is in evaluate_strategy_lock
    cur,         \* per loop: the strategy it works on
    last,        \* per loop: what its last tick observed and did
    account,     \* the MoomooAccount fields of one ticker
    orders,      \* the orders of the ticker at the venue, in placement order
    sm,          \* the smart_sell thread
    sw,          \* the place_sell_order_with_retry call of smart_sell
    time,        \* time.time(), in seconds
    buyer,       \* per caller: where it is in buy_with_smart_sell
    watchers,    \* the cancel_unfilled_order threads, in start order
    bought,      \* when buy_with_smart_sell last recorded a buy, and whether
                 \* a cancel has cleared the record since
    canbuy,      \* what the last call of can_buy found and returned
    fn           \* the last call of a function checked on its own: its
                 \* name, its inputs and what it returned

\* the strategy lifecycle and the execution coordinator
svars == <<slot, history, db, published, clock, pc, cur, last>>
bvars == <<time, buyer, watchers, bought, canbuy, fn>>
avars == <<account, orders, sm, sw, bvars>>
vars == <<svars, avars>>

\* counts of published signals saturate here ("this many or more")
MaxSignals == 2

Signals == {"entry", "target", "exit"} \X (1..MaxLocks)

NoObservation == [reached |-> FALSE, sell |-> FALSE, below |-> FALSE]

\* op: how the tick ended; ctype: the completion type it invoked
\* _complete_strategy with; reached, sell, below: what it observed
Outcome(op, ctype, obs) ==
    [op |-> op, ctype |-> ctype, reached |-> obs.reached, sell |-> obs.sell,
     below |-> obs.below]

NoTick == Outcome("init", "none", NoObservation)

\* MoomooAccount.__init__ for one ticker: nothing bought, no thread running
NoAccount ==
    [trading_enabled |-> FALSE, trading_account |-> "cash",
     settled_balance |-> NoneNum, buy_timestamp |-> NoneNum,
     position |-> NoneNum, quantity |-> NoneNum]

\* the callers of buy_with_smart_sell: the trade_signal subscriber thread
\* and the HTTP trade endpoint
Callers == {"subscriber", "http"}

NoCanBuy == [seen |-> FALSE]

\* a caller outside buy_with_smart_sell
NoBuyer == [pc |-> "idle", before |-> 0, order |-> 0]

NoBought == [at |-> NoneNum, cleared |-> FALSE]

NoCall == [op |-> "none"]

NoSmartSell ==
    [pc |-> "off", buy_price |-> NoneNum, highest_price |-> NoneNum,
     remaining_qty |-> 0, tripped |-> FALSE, chk |-> [seen |-> FALSE]]

NoSell == [pc |-> "idle"]

AccountIdle ==
    /\ account = NoAccount
    /\ orders = <<>>
    /\ sm = NoSmartSell
    /\ sw = NoSell
    /\ time = 0
    /\ buyer = [c \in Callers |-> NoBuyer]
    /\ watchers = <<>>
    /\ bought = NoBought
    /\ canbuy = NoCanBuy
    /\ fn = NoCall

StrategyIdle ==
    /\ slot = None
    /\ history = <<>>
    /\ db = <<>>
    /\ published = [sg \in Signals |-> 0]
    /\ clock = 0
    /\ pc = [l \in Loops |-> "idle"]
    /\ cur = [l \in Loops |-> None]
    /\ last = [l \in Loops |-> NoTick]

Init == AccountIdle /\ StrategyIdle

\* redis_manager.publish('trade_signal', ...) for the strategy locked at t
Publish(status, t) ==
    [published EXCEPT ![<<status, t>>] = IF @ < MaxSignals THEN @ + 1 ELSE @]

\* line 19: redis_manager.get_current_strategy
GetCurrentStrategy(l) ==
    /\ pc[l] = "idle"
    /\ pc' = [pc EXCEPT ![l] = "evaluate"]
    /\ cur' = [cur EXCEPT ![l] = slot]
    /\ UNCHANGED <<slot, history, db, published, clock, last, avars>>

\* the pattern evaluate_all_patterns puts first, for every read of the store
\* and of the oracle; None when no pattern is surfaced
FirstPattern(inp) ==
    LET evals == EvaluateAllPatterns(inp)
    IN IF Surfaced(evals) = {} THEN DefaultResult("None") ELSE evals[Best(evals)]

FirstPatterns(R) == {FirstPattern(inp) : inp \in [1..Len(PatternOrder) -> R.patterns]}

\* line 26 of evaluate_strategy_lock
ClearsThreshold(pattern) == pattern.pattern_name # "None" /\ pattern.match_score >= MinScore

\* lines 24-29: no pattern clears the threshold
NoLock(l, R) ==
    /\ pc[l] = "evaluate"
    /\ ~HasLockedStrategy(cur[l])
    /\ \E pattern \in FirstPatterns(R) : ~ClearsThreshold(pattern)
    /\ pc' = [pc EXCEPT ![l] = "idle"]
    /\ last' = [last EXCEPT ![l] = Outcome("none", "none", NoObservation)]
    /\ UNCHANGED <<slot, history, db, published, clock, cur, avars>>

\* the Strategy object _create_strategy_lock builds (lines 103-158)
\* mutant: the buy is recorded only for a strategy that signals its entry
NewStrategy_buy_on_entry(pattern, price, now) ==
    [name |-> pattern.pattern_name, state |-> LOCKED, entry_price |-> price,
     target_price |-> pattern.target_price, stop_price |-> pattern.stop_price,
     lock_time |-> now,
     buy_time |-> IF pattern.probability >= EntryProbability THEN now
                  ELSE NoneNum,
     probability |-> pattern.probability, match_score |-> pattern.match_score,
     completion_type |-> "None", completion_time |-> NoneNum,
     target_history |-> IF Truthy(pattern.target_price)
                        THEN <<TargetLevel(pattern.target_price)>>
                        ELSE <<>>,
     current_target_index |-> 0,
     max_targets |-> max_targets]

NewStrategy(pattern, price, now) ==
    [name |-> pattern.pattern_name, state |-> LOCKED, entry_price |-> price,
     target_price |-> pattern.target_price, stop_price |-> pattern.stop_price,
     lock_time |-> now, buy_time |-> now,
     probability |-> pattern.probability, match_score |-> pattern.match_score,
     completion_type |-> "None", completion_time |-> NoneNum,
     target_history |-> IF Truthy(pattern.target_price)
                        THEN <<TargetLevel(pattern.target_price)>>
                        ELSE <<>>,
     current_target_index |-> 0,
     max_targets |-> max_targets]

\* line 162 of _create_strategy_lock
SignalsEntry(pattern) == pattern.probability >= EntryProbability

\* lines 24-27 and _create_strategy_lock
CreateStrategyLock(l, R) ==
    /\ pc[l] = "evaluate"
    /\ ~HasLockedStrategy(cur[l])
    /\ clock < R.locks
    /\ \E pattern \in FirstPatterns(R), price \in R.entries :
          /\ ClearsThreshold(pattern)
          /\ slot' = ToDict(NewStrategy(pattern, price, clock + 1))
          /\ published' = IF SignalsEntry(pattern)
                          THEN Publish("entry", clock + 1)
                          ELSE published
    /\ clock' = clock + 1
    /\ pc' = [pc EXCEPT ![l] = "idle"]
    /\ last' = [last EXCEPT ![l] = Outcome("lock", "none", NoObservation)]
    /\ UNCHANGED <<history, db, cur, avars>>

\* lines 41-58: the target is reached and the ladder advances
TargetUpdated(l, R) ==
    /\ pc[l] = "evaluate"
    /\ HasLockedStrategy(cur[l])
    /\ \E d \in Decisions(FromDict(cur[l]), R) :
          /\ d.kind = "target"
          /\ slot' = ToDict(d.s)
          /\ published' = Publish("target", d.s.lock_time)
          /\ last' = [last EXCEPT ![l] = Outcome("target", "none", d.obs)]
    /\ pc' = [pc EXCEPT ![l] = "idle"]
    /\ UNCHANGED <<history, db, clock, cur, avars>>

\* what the metrics refresh can make of the strategy dict
Refreshed(strategy, R) ==
    {UpdateStrategyMetrics(strategy, EvaluatePattern(strategy.name, m)) : m \in R.metrics}

\* lines 91-99: stop ratchet and metrics refresh, the strategy stays active
Hold(l, R) ==
    /\ pc[l] = "evaluate"
    /\ HasLockedStrategy(cur[l])
    /\ \E d \in Decisions(FromDict(cur[l]), R) :
          /\ d.kind = "hold"
          /\ \E updated_strategy \in Refreshed(ToDict(d.s), R) :
                slot' = updated_strategy
          /\ last' = [last EXCEPT ![l] = Outcome("hold", "none", d.obs)]
    /\ pc' = [pc EXCEPT ![l] = "idle"]
    /\ UNCHANGED <<history, db, published, clock, cur, avars>>

\* the strategy object _complete_strategy archives (lines 173-176)
Completed(strategy, completion_type, now) ==
    [FromDict(strategy) EXCEPT !.state = COMPLETED,
                               !.completion_type = completion_type,
                               !.completion_time = now]

\* lines 59-66, 72-79, 82-89 and _complete_strategy up to line 198: the
\* 'exit' signal, the profit computation and the append to the history list
CompleteStrategy(l, R) ==
    /\ pc[l] = "evaluate"
    /\ HasLockedStrategy(cur[l])
    /\ Len(history) < MaxHistory
    /\ \E d \in Decisions(FromDict(cur[l]), R), final_price \in R.prices :
          LET obj == Completed(ToDict(d.s), d.ctype, clock)
          IN /\ d.kind = "complete"
             /\ published' = Publish("exit", d.s.lock_time)
             /\ IF ProfitLossRaises(obj, final_price)
                THEN /\ pc' = [pc EXCEPT ![l] = "idle"]
                     /\ last' = [last EXCEPT ![l] = Outcome("error", d.ctype, d.obs)]
                     /\ UNCHANGED <<history, cur>>
                ELSE /\ history' = Append(history, ToDict(obj))
                     /\ cur' = [cur EXCEPT ![l] = ToDict(obj)]
                     /\ pc' = [pc EXCEPT ![l] = "persist"]
                     /\ last' = [last EXCEPT ![l] =
                                     Outcome("exit_" \o d.ctype, d.ctype, d.obs)]
    /\ UNCHANGED <<slot, db, clock, avars>>

\* _store_strategy_in_database: the row is committed, or the failure is logged
StoreStrategyInDatabase(l) ==
    /\ pc[l] = "persist"
    /\ \/ db' = Append(db, [lock_time |-> cur[l].lock_time,
                            completion_type |-> cur[l].completion_type])
       \/ db' = db
    /\ pc' = [pc EXCEPT ![l] = "clear"]
    /\ UNCHANGED <<slot, history, published, clock, cur, last, avars>>

\* line 204: redis_manager.set_current_strategy(ticker, None)
ClearCurrentStrategy(l) ==
    /\ pc[l] = "clear"
    /\ slot' = None
    /\ pc' = [pc EXCEPT ![l] = "idle"]
    /\ cur' = [cur EXCEPT ![l] = None]
    /\ UNCHANGED <<history, db, published, clock, last, avars>>

Tick(l, R) ==
    \/ GetCurrentStrategy(l)
    \/ NoLock(l, R)
    \/ CreateStrategyLock(l, R)
    \/ TargetUpdated(l, R)
    \/ Hold(l, R)
    \/ CompleteStrategy(l, R)
    \/ StoreStrategyInDatabase(l)
    \/ ClearCurrentStrategy(l)

\* the life of one strategy under one evaluation loop (as subscribe_worker
\* starts it), every read drawn from the full sets
Next == Tick(1, Wide)

Spec == Init /\ [][Next]_vars

\* one evaluation loop, several strategies in a row
NextLocks == Tick(1, Narrow)

SpecLocks == Init /\ [][NextLocks]_vars

\* two evaluation loops on the same ticker, one strategy, no stop ratchet
Conc == [Narrow EXCEPT !.locks = 1, !.vwaps = {NoneNum}]

NextConc == \E l \in Loops : Tick(l, Conc)

SpecConc == Init /\ [][NextConc]_vars


\* ================================================ execution coordinator
\* ------------------------------------------------------------ value sets
\* what the exit manager reads: the price (0 is the default of a missing
\* key), the highest tick price since the fill (NoneNum: no tick), ATR, ADX,
\* VWAP, the last order-book snapshot, and whether the recent BUY tick volume
\* exceeds the SELL tick volume
ExitPrices == {0, 8990000, 9200000, 10000000, 10800000}
TickHighs == {NoneNum, 10800000}
ExitATRs == {NoneNum, 500000}
ADXReads == {NoneNum, 15, 35}
ExitVWAPs == {NoneNum, 10500000}

NoBook == [none |-> TRUE]
Orderbooks ==
    {NoBook,
     [best_bid_price |-> 10790000, best_ask_price |-> 10000000, imbalance |-> 50],
     [best_bid_price |-> 10760000, best_ask_price |-> 10000000, imbalance |-> 60]}

\* time.sleep(5) of cancel_unfilled_order, and the window of can_buy
CancelAfter == 5
BuyWindow == 60

\* the fill the exit manager is started for
FillPrice == 10000000
FillQty == 2

\* sell orders one behaviour places at the venue
MaxOrders == 2

MaxOf(a, b) == IF a >= b THEN a ELSE b
MinOf(a, b) == IF a <= b THEN a ELSE b

\* ------------------------------------------------------------- can_sell
\* MoomooAccount.can_sell: the reason of the rejection, "" when it passes
CanSell(acct, sell_qty) ==
    IF ~acct.trading_enabled THEN "System sell feature is disabled"
    ELSE IF acct.position = NoneNum THEN "No position"
    ELSE IF acct.position < sell_qty THEN "Insufficient position quantity"
    ELSE ""

\* -------------------------------------------------- check_sell_condition
\* line 692 of smart_sell
CircuitBreakerTripped(current_price, buy_price) ==
    current_price < Scale(buy_price, 9, 10)

ATRAvailable(atr) == atr # NoneNum /\ atr > 0

\* lines 726-729
ProfitThreshold(buy_price, atr) ==
    IF ATRAvailable(atr)
    THEN buy_price + MaxOf((atr * 3) \div 2, Scale(buy_price, 3, 100))
    ELSE Scale(buy_price, 105, 100)

\* line 736
HalfOf(remaining_qty) ==
    IF remaining_qty \div 2 > 0 THEN remaining_qty \div 2 ELSE remaining_qty

\* lines 743-745: the ATR the stops are computed with
EffectiveATR(buy_price, atr) ==
    IF ATRAvailable(atr) THEN atr ELSE Scale(buy_price, 2, 100)

\* mutant: an ADX that is not positive is classified like any other ADX
TwiceATRMultiplier_every_adx(adx) ==
    IF adx # NoneNum
    THEN IF adx > 30 THEN 4 ELSE IF adx < 20 THEN 2 ELSE 3
    ELSE 3

\* lines 748-760: twice the ATR multiplier of the trailing stop
TwiceATRMultiplier(adx) ==
    IF adx # NoneNum /\ adx > 0
    THEN IF adx > 30 THEN 4 ELSE IF adx < 20 THEN 2 ELSE 3
    ELSE 3

\* line 763
LimitLine(highest_price, atr, adx) ==
    highest_price - (atr * TwiceATRMultiplier(adx)) \div 2

\* lines 763-764
BelowLimitLine(price, highest_price, atr, adx) ==
    price <= LimitLine(highest_price, atr, adx)

\* lines 767-771
VWAPBreakdown(price, vwap, atr) ==
    vwap # NoneNum /\ vwap > 0 /\ price < vwap - (atr * 3) \div 4

\* the order-flow confirmation without the tick-volume test
OrderFlowConfirms_imbalance_only(orderbook, strong_buy) ==
    orderbook.imbalance < 60

\* the order-flow confirmation of lines 785-795: no bid dominance and no
\* dominance of BUY tick volume
OrderFlowConfirms(orderbook, strong_buy) ==
    orderbook.imbalance < 60 /\ ~strong_buy

NoSellCondition == [sell |-> FALSE, price |-> NoneNum, qty |-> 0]

CheckInputs ==
    [price : ExitPrices, atr : ExitATRs, adx : ADXReads, vwap : ExitVWAPs,
     orderbook : Orderbooks, strong_buy : BOOLEAN]

\* MoomooAccount.check_sell_condition: (is_sell_condition, sell_price,
\* sell_qty); a missing order book raises and the except clause returns
\* (False, None, 0)
CheckSellCondition(in, buy_price, highest_price, remaining_qty) ==
    LET atr == EffectiveATR(buy_price, in.atr)
        breakdown == VWAPBreakdown(in.price, in.vwap, atr)
    IN IF in.price > ProfitThreshold(buy_price, in.atr)
       THEN IF in.orderbook = NoBook
            THEN NoSellCondition
            ELSE [sell |-> TRUE,
                  price |-> MinOf(in.price, in.orderbook.best_bid_price),
                  qty |-> HalfOf(remaining_qty)]
       ELSE IF BelowLimitLine(in.price, highest_price, atr, in.adx) \/ breakdown
       THEN IF in.orderbook = NoBook
            THEN NoSellCondition
            ELSE IF breakdown \/ OrderFlowConfirms(in.orderbook, in.strong_buy)
                 THEN [sell |-> TRUE, price |-> in.orderbook.best_bid_price,
                       qty |-> remaining_qty]
                 ELSE NoSellCondition
       ELSE NoSellCondition

\* what one run of check_sell_condition saw, and what it returned
CheckObservation(in, buy_price, highest_price, remaining_qty) ==
    LET atr == EffectiveATR(buy_price, in.atr)
    IN [seen |-> TRUE,
        profit |-> in.price > ProfitThreshold(buy_price, in.atr),
        breakdown |-> VWAPBreakdown(in.price, in.vwap, atr),
        below |-> BelowLimitLine(in.price, highest_price, atr, in.adx),
        book |-> in.orderbook # NoBook,
        flow |-> in.orderbook # NoBook
                 /\ OrderFlowConfirms(in.orderbook, in.strong_buy),
        remaining |-> remaining_qty,
        buy_price |-> buy_price,
        result |-> CheckSellCondition(in, buy_price, highest_price, remaining_qty)]

CheckObservations(buy_price, highest_price, remaining_qty) ==
    {CheckObservation(in, buy_price, highest_price, remaining_qty) : in \in CheckInputs}

NoCheck == [seen |-> FALSE]

\* ------------------------------------------------------------- the venue
OpenStatuses == {"SUBMITTED", "PARTIAL_FILLED"}

Order(side, price, qty) ==
    [side |-> side, price |-> price, qty |-> qty, dealt |-> 0,
     status |-> "SUBMITTED"]

RECURSIVE Dealt(_, _, _)
\* the quantity filled so far on one side, over the first n orders
Dealt(os, side, n) ==
    IF n = 0 THEN 0
    ELSE Dealt(os, side, n - 1) + (IF os[n].side = side THEN os[n].dealt ELSE 0)

\* the shares of the ticker the account holds at the venue
Held(os) == Dealt(os, "BUY", Len(os)) - Dealt(os, "SELL", Len(os))

\* the venue fills an open order, partly or wholly
VenueFill ==
    /\ \E i \in 1..Len(orders) :
          /\ orders[i].status \in OpenStatuses
          /\ \E n \in 1..(orders[i].qty - orders[i].dealt) :
                orders' = [orders EXCEPT
                    ![i].dealt = @ + n,
                    ![i].status = IF orders[i].dealt + n = orders[i].qty
                                  THEN "FILLED_ALL" ELSE "PARTIAL_FILLED"]
    /\ UNCHANGED <<account, sm, sw, svars, bvars>>

\* ----------------------------------------------------- account settings
\* the settled balance accinfo_query reports
VenueSettledBalance == 50000000

\* MoomooAccount.refresh_account_balance: the query succeeds and the
\* balance is stored, or it fails and the field keeps its value
RefreshAccountBalance(acct) ==
    {acct, [acct EXCEPT !.settled_balance = VenueSettledBalance]}

\* MoomooAccount.update_trading_enabled
UpdateTradingEnabled ==
    /\ account' \in RefreshAccountBalance([account EXCEPT !.trading_enabled = ~@])
    /\ UNCHANGED <<orders, sm, sw, svars, bvars>>

\* MoomooAccount.refresh_positions (run by process_order on an order push):
\* the cached position of the ticker
RefreshPositions ==
    /\ account' = [account EXCEPT
          !.position = IF Held(orders) > 0 THEN Held(orders) ELSE NoneNum]
    /\ UNCHANGED <<orders, sm, sw, svars, bvars>>

\* ------------------------------------------------------------ smart_sell
\* the call place_sell_order_with_retry(ticker, initial_price, quantity)
SellCall(why, initial_price, quantity) ==
    [pc |-> "place", why |-> why, initial_price |-> initial_price,
     current_price |-> initial_price, quantity |-> quantity,
     first |-> 0, order |-> 0, left |-> quantity]

\* lines 684-700: the highest price, the circuit breaker and its sell
SmartSellCircuitBreaker ==
    /\ sm.pc = "loop"
    /\ \E tick_high \in TickHighs, current_price \in ExitPrices :
          LET tripped == CircuitBreakerTripped(current_price, sm.buy_price)
              seen == [sm EXCEPT !.highest_price = MaxOf(@, tick_high),
                                 !.tripped = tripped, !.chk = NoCheck]
          IN IF tripped /\ CanSell(account, sm.remaining_qty) = ""
             THEN /\ sm' = [seen EXCEPT !.pc = "selling"]
                  /\ sw' = SellCall("circuit", current_price, sm.remaining_qty)
             ELSE /\ sm' = [seen EXCEPT !.pc = "check"]
                  /\ sw' = sw
    /\ UNCHANGED <<account, orders, svars, bvars>>

\* lines 702-707: check_sell_condition and the sell it asks for
SmartSellCheck ==
    /\ sm.pc = "check"
    /\ \E chk \in CheckObservations(sm.buy_price, sm.highest_price, sm.remaining_qty) :
          LET r == chk.result
              seen == [sm EXCEPT !.tripped = FALSE, !.chk = chk]
          IN IF /\ r.sell /\ r.qty > 0 /\ r.qty <= sm.remaining_qty
                /\ CanSell(account, r.qty) = ""
             THEN /\ sm' = [seen EXCEPT !.pc = "selling"]
                  /\ sw' = SellCall("condition", r.price, r.qty)
             ELSE /\ sm' = [seen EXCEPT !.pc = "loop"]
                  /\ sw' = sw
    /\ UNCHANGED <<account, orders, svars, bvars>>

\* the best bid of the last order-book snapshot, None without a snapshot
\* (lines 426-432 and 450-456)
RefreshedBid(orderbook) ==
    IF orderbook = NoBook THEN NoneNum ELSE orderbook.best_bid_price

\* lines 408-436: one pass of the placing loop; with current_price None the
\* format of line 409 raises, and smart_sell's except clause ends the
\* iteration
PlaceSellOrder ==
    /\ sw.pc = "place"
    /\ IF sw.current_price = NoneNum
       THEN /\ sw' = NoSell
            /\ sm' = [sm EXCEPT !.pc = "loop", !.tripped = FALSE]
            /\ UNCHANGED orders
       ELSE \/ /\ Len(orders) <= MaxOrders
               /\ orders' = Append(orders, Order("SELL", sw.current_price, sw.quantity))
               /\ sw' = [sw EXCEPT !.pc = "monitor", !.order = Len(orders) + 1,
                                   !.first = IF @ = 0 THEN Len(orders) + 1 ELSE @,
                                   !.left = sw.quantity]
               /\ sm' = sm
            \/ /\ \E orderbook \in Orderbooks :
                     sw' = [sw EXCEPT !.current_price = RefreshedBid(orderbook)]
               /\ UNCHANGED <<orders, sm>>
    /\ UNCHANGED <<account, svars, bvars>>

\* the executed sell with a smart_sell that returns after any sell
SellExecuted_returns_early ==
    /\ account' = [account EXCEPT !.quantity = @ - sw.quantity]
    /\ sw' = NoSell
    /\ sm' = IF sw.why = "circuit"
             THEN [sm EXCEPT !.pc = "done", !.remaining_qty = 0]
             ELSE [sm EXCEPT !.pc = "done", !.remaining_qty = @ - sw.quantity]

\* lines 438-441 and 695-698, 708-713: the sell is executed; smart_sell
\* subtracts the sold quantity and re-bases buy_price
SellExecuted ==
    /\ account' = [account EXCEPT !.quantity = @ - sw.quantity]
    /\ sw' = NoSell
    /\ sm' = IF sw.why = "circuit"
             THEN [sm EXCEPT !.pc = "done", !.remaining_qty = 0]
             ELSE IF sm.remaining_qty - sw.quantity > 0
             THEN [sm EXCEPT !.pc = "loop",
                             !.remaining_qty = @ - sw.quantity,
                             !.buy_price = sw.initial_price]
             ELSE [sm EXCEPT !.pc = "done", !.remaining_qty = @ - sw.quantity]

\* _monitor_sell_order_execution: one poll of the order's status, or the
\* timeout
MonitorSellOrder ==
    /\ sw.pc = "monitor"
    /\ LET order == orders[sw.order]
       IN \/ /\ order.status = "FILLED_ALL"
             /\ SellExecuted
          \/ /\ order.status \in {"CANCELLED_ALL", "FAILED"}
             /\ sw' = [sw EXCEPT !.pc = "cancel"]
             /\ UNCHANGED <<account, sm>>
          \/ /\ order.status = "PARTIAL_FILLED" /\ order.dealt > 0
             /\ IF sw.left - order.dealt <= 0
                THEN SellExecuted
                ELSE /\ sw' = [sw EXCEPT !.left = @ - order.dealt]
                     /\ UNCHANGED <<account, sm>>
          \/ /\ sw' = [sw EXCEPT !.pc = "cancel"]
             /\ UNCHANGED <<account, sm>>
    /\ UNCHANGED <<orders, svars, bvars>>

\* lines 443-456: the cancel is acknowledged for an open order, and the
\* price is refreshed from the order book
CancelSellOrder ==
    /\ sw.pc = "cancel"
    /\ orders[sw.order].status \in OpenStatuses
    /\ orders' = [orders EXCEPT ![sw.order].status = "CANCELLED_ALL"]
    /\ \E orderbook \in Orderbooks :
          sw' = [sw EXCEPT !.pc = "place", !.current_price = RefreshedBid(orderbook)]
    /\ UNCHANGED <<account, sm, svars, bvars>>

\* the exit manager as cancel_unfilled_order starts it (lines 672-676) for
\* a filled buy order; the position cache may or may not hold the ticker
InitExit ==
    /\ StrategyIdle
    /\ \E position \in {NoneNum, FillQty} :
          account = [NoAccount EXCEPT
                        !.trading_enabled = TRUE,
                        !.settled_balance = VenueSettledBalance,
                        !.buy_timestamp = 0,
                        !.position = position,
                        !.quantity = FillQty]
    /\ orders = <<[Order("BUY", FillPrice, FillQty) EXCEPT
                      !.dealt = FillQty, !.status = "FILLED_ALL"]>>
    /\ sm = [pc |-> "loop", buy_price |-> FillPrice, highest_price |-> FillPrice,
             remaining_qty |-> FillQty, tripped |-> FALSE, chk |-> NoCheck]
    /\ sw = NoSell
    /\ time = CancelAfter
    /\ buyer = [c \in Callers |-> NoBuyer]
    /\ watchers = <<[order |-> 1, at |-> 0, pc |-> "launched"]>>
    /\ bought = [at |-> 0, cleared |-> FALSE]
    /\ canbuy = NoCanBuy
    /\ fn = NoCall

NextExit ==
    \/ SmartSellCircuitBreaker
    \/ SmartSellCheck
    \/ PlaceSellOrder
    \/ MonitorSellOrder
    \/ CancelSellOrder
    \/ VenueFill
    \/ UpdateTradingEnabled
    \/ RefreshPositions

SpecExit == InitExit /\ [][NextExit]_vars

\* ---------------------------------------------------- buy_with_smart_sell
\* self.trading_amount, and the values the fields behind can_buy start with
TradingAmount == 20000000
SettledBalances == {NoneNum, 5000000, VenueSettledBalance}
TradingAccounts == {"cash", "other"}

\* the instants, in seconds, at which time.time() is looked at
Instants == {0, CancelAfter, BuyWindow, BuyWindow + CancelAfter}

\* the buy orders buy_with_smart_sell places at most
MaxBuys == 2

\* can_buy without the test of the 60-second window
CanBuy_no_window(acct, t) ==
    IF ~acct.trading_enabled THEN "Trading is disabled"
    ELSE IF acct.quantity # NoneNum /\ acct.quantity > 0
    THEN "Already has position"
    ELSE IF acct.trading_account \in {"cash", "margin"}
    THEN IF acct.settled_balance = NoneNum THEN "TypeError"
         ELSE IF TradingAmount > acct.settled_balance
         THEN "Trading amount is exceed settled balance"
         ELSE ""
    ELSE "Invalid trading account"

\* MoomooAccount.can_buy at time t: the reason of the rejection, "" for
\* (True, ''), and "TypeError" where the comparison with a balance that is
\* None raises
CanBuy(acct, t) ==
    IF ~acct.trading_enabled THEN "Trading is disabled"
    ELSE IF acct.buy_timestamp # NoneNum /\ t - acct.buy_timestamp < BuyWindow
    THEN "Already bought in the last 60 seconds"
    ELSE IF acct.quantity # NoneNum /\ acct.quantity > 0
    THEN "Already has position"
    ELSE IF acct.trading_account \in {"cash", "margin"}
    THEN IF acct.settled_balance = NoneNum THEN "TypeError"
         ELSE IF TradingAmount > acct.settled_balance
         THEN "Trading amount is exceed settled balance"
         ELSE ""
    ELSE "Invalid trading account"

\* what one call of can_buy found, and what it returned
CanBuyObservation(acct, t) ==
    [seen |-> TRUE, at |-> t,
     enabled |-> acct.trading_enabled,
     prior |-> bought.at # NoneNum /\ t - bought.at < BuyWindow,
     cleared |-> bought.cleared,
     recent |-> acct.buy_timestamp # NoneNum /\ t - acct.buy_timestamp < BuyWindow,
     held |-> acct.quantity # NoneNum /\ acct.quantity > 0,
     balance |-> acct.settled_balance,
     valid |-> acct.trading_account \in {"cash", "margin"},
     result |-> CanBuy(acct, t)]

\* lines 601-604: can_buy; a rejection and a raise both end the call
BuyCanBuy(c) ==
    /\ buyer[c].pc = "idle"
    /\ canbuy' = CanBuyObservation(account, time)
    /\ buyer' = [buyer EXCEPT ![c] =
          IF canbuy'.result = ""
          THEN [pc |-> "place", before |-> Len(orders), order |-> 0]
          ELSE NoBuyer]
    /\ UNCHANGED <<account, orders, sm, sw, time, watchers, bought, svars, fn>>

\* lines 606-630: the order book, the quantity and place_order
BuyPlaceOrder(c) ==
    /\ buyer[c].pc = "place"
    /\ \E orderbook \in Orderbooks :
          LET qty == IF orderbook = NoBook THEN 0
                     ELSE TradingAmount \div orderbook.best_ask_price
          IN IF orderbook = NoBook \/ qty = 0
             THEN /\ buyer' = [buyer EXCEPT ![c] = NoBuyer]
                  /\ orders' = orders
             ELSE \/ /\ Len(orders) < MaxBuys
                     /\ orders' = Append(orders, Order("BUY", orderbook.best_ask_price, qty))
                     /\ buyer' = [buyer EXCEPT ![c].pc = "stamp",
                                               ![c].order = Len(orders) + 1]
                  \/ /\ buyer' = [buyer EXCEPT ![c] = NoBuyer]
                     /\ orders' = orders
    /\ UNCHANGED <<account, sm, sw, time, watchers, bought, canbuy, svars, fn>>

\* lines 632-638: the timestamp is recorded and cancel_unfilled_order is
\* started for the order
BuyStamp(c) ==
    /\ buyer[c].pc = "stamp"
    /\ account' = [account EXCEPT !.buy_timestamp = time]
    /\ watchers' = Append(watchers, [order |-> buyer[c].order, at |-> time,
                                      pc |-> "sleep"])
    /\ bought' = [at |-> time, cleared |-> FALSE]
    /\ buyer' = [buyer EXCEPT ![c] = NoBuyer]
    /\ UNCHANGED <<orders, sm, sw, time, canbuy, svars, fn>>

\* the exit manager cancel_unfilled_order starts (lines 672-676)
StartSmartSell(order) ==
    [pc |-> "loop", buy_price |-> order.price, highest_price |-> order.price,
     remaining_qty |-> order.qty, tripped |-> FALSE, chk |-> NoCheck]

\* lines 642-654 and 671-676: after the sleep the order is looked up in the
\* refreshed list; it may be missing there, in which case the thread
\* returns; a filled order sets quantity and starts smart_sell (the model
\* follows the first smart_sell thread)
WatcherLooks(i) ==
    /\ watchers[i].pc = "sleep"
    /\ time >= watchers[i].at + CancelAfter
    /\ LET order == orders[watchers[i].order]
       IN \/ /\ watchers' = [watchers EXCEPT ![i].pc = "absent"]
             /\ UNCHANGED <<account, sm>>
          \/ /\ order.status = "FILLED_ALL"
             /\ watchers' = [watchers EXCEPT ![i].pc = "launched"]
             /\ account' = [account EXCEPT !.quantity = order.qty]
             /\ sm' = IF sm.pc = "off" THEN StartSmartSell(order) ELSE sm
          \/ /\ order.status # "FILLED_ALL"
             /\ watchers' = [watchers EXCEPT ![i].pc = "cancel"]
             /\ UNCHANGED <<account, sm>>
    /\ UNCHANGED <<orders, sw, time, buyer, bought, canbuy, svars, fn>>

\* lines 655-670: one acknowledged cancel; the venue acknowledges the
\* cancel of an open order only, the loop repeats otherwise
WatcherCancels(i) ==
    /\ watchers[i].pc = "cancel"
    /\ orders[watchers[i].order].status \in OpenStatuses
    /\ orders' = [orders EXCEPT ![watchers[i].order].status = "CANCELLED_ALL"]
    /\ account' = [account EXCEPT !.buy_timestamp = NoneNum]
    /\ bought' = [bought EXCEPT !.cleared = TRUE]
    /\ watchers' = [watchers EXCEPT ![i].pc = "cancelled"]
    /\ UNCHANGED <<sm, sw, time, buyer, canbuy, svars, fn>>

TimePasses ==
    /\ \E t \in Instants : t > time /\ time' = t
    /\ UNCHANGED <<account, orders, sm, sw, buyer, watchers, bought, canbuy, svars, fn>>

\* the account as constructed, with the settings and the balance it may
\* have when the first signal arrives
InitBuy ==
    /\ StrategyIdle
    /\ \E enabled \in BOOLEAN, ta \in TradingAccounts, balance \in SettledBalances :
          account = [NoAccount EXCEPT !.trading_enabled = enabled,
                                      !.trading_account = ta,
                                      !.settled_balance = balance]
    /\ orders = <<>>
    /\ sm = NoSmartSell
    /\ sw = NoSell
    /\ time = 0
    /\ buyer = [c \in Callers |-> NoBuyer]
    /\ watchers = <<>>
    /\ bought = NoBought
    /\ canbuy = NoCanBuy
    /\ fn = NoCall

NextBuy ==
    \/ \E c \in Callers : BuyCanBuy(c)
    \/ \E c \in Callers : BuyPlaceOrder(c)
    \/ \E c \in Callers : BuyStamp(c)
    \/ \E i \in 1..Len(watchers) : WatcherLooks(i)
    \/ \E i \in 1..Len(watchers) : WatcherCancels(i)
    \/ VenueFill
    \/ UpdateTradingEnabled
    \/ TimePasses

SpecBuy == InitBuy /\ [][NextBuy]_vars


\* -------------------------------------------------- _check_sell_signals
\* what _check_sell_signals reads (lines 344-380), prices in cents: the
\* price, VWAP and EMA9 (0 when missing), StochRSI_K, the change of ROC, ADX
\* (None when the indicator list is empty), Volume_Ratio in tenths,
\* Williams %R, and the tape of the last 5 seconds: BUY and SELL volume and
\* the run of BUY ticks at its end
SignalPrices == {990, 1010}
SignalVWAPs == {1000}
SignalEMAs == {0, 1000}
StochReads == {30, 50, 85}
ROCPrimes == {0 - 1, 0, 1}
SignalADXs == {NoneNum, 15, 25, 40}
VolumeRatios == {10, 35}
WilliamsReads == {0 - 50, 0 - 10}
Tapes == {[buy_vol |-> 0, sell_vol |-> 0, uptick_seq |-> 0],
          [buy_vol |-> 4, sell_vol |-> 6, uptick_seq |-> 0],
          [buy_vol |-> 5, sell_vol |-> 5, uptick_seq |-> 1],
          [buy_vol |-> 6, sell_vol |-> 4, uptick_seq |-> 0],
          [buy_vol |-> 6, sell_vol |-> 4, uptick_seq |-> 1]}

\* seconds between the time of the last stored tick and the call; the window
\* of line 365 is taken back from the last tick's time, so the code does not
\* read this age
TickAges == {0, 120}

SignalInputs ==
    [current_price : SignalPrices, vwap : SignalVWAPs, ema9 : SignalEMAs,
     stoch_rsi : StochReads, roc_prime : ROCPrimes, adx : SignalADXs,
     volume_ratio : VolumeRatios, williams_r : WilliamsReads, tape : Tapes,
     tick_age : TickAges]

\* lines 366-369: aggressor_ratio <= percent / 100
AggressorAtMost(tape, percent) ==
    LET total == tape.buy_vol + tape.sell_vol
    IN IF total > 0 THEN 100 * tape.buy_vol <= percent * total
       ELSE 50 <= percent

\* line 385 without the test of the aggressor ratio
BelowStructure_unconfirmed(in, ema) ==
    /\ in.current_price < in.vwap /\ in.current_price < ema
    /\ (in.stoch_rsi < 40 \/ in.roc_prime < 0)

\* line 385
BelowStructure(in, ema) ==
    /\ in.current_price < in.vwap /\ in.current_price < ema
    /\ (in.stoch_rsi < 40 \/ in.roc_prime < 0)
    /\ AggressorAtMost(in.tape, 45)

\* StrategyService._check_sell_signals: the reason, or "None"; a comparison
\* with an ADX that is None raises, and the except clause returns None
CheckSellSignals(in) ==
    LET ema == IF in.ema9 # 0 THEN in.ema9 ELSE in.vwap
    IN IF BelowStructure(in, ema)
       THEN "Below VWAP/EMA9 with Weak Tape"
       ELSE IF in.adx = NoneNum THEN "None"
       ELSE IF /\ in.adx > 35 /\ in.current_price < MinOf(in.vwap, ema)
               /\ AggressorAtMost(in.tape, 40) /\ in.roc_prime < 0
               /\ in.tape.uptick_seq = 0
       THEN "Strong Bearish Trend Confirmation"
       ELSE IF /\ in.volume_ratio > 30 /\ in.stoch_rsi > 80
               /\ AggressorAtMost(in.tape, 50) /\ in.roc_prime <= 0
       THEN "Volume Exhaustion with Tape Rollover"
       ELSE IF /\ in.williams_r >= 0 - 20 /\ in.adx > 20
               /\ in.current_price < ema
               /\ (AggressorAtMost(in.tape, 45) \/ in.roc_prime < 0)
       THEN "Williams %R Overbought with Structure Loss"
       ELSE "None"

\* a call of _check_sell_signals returns
CheckSellSignalsCall ==
    /\ fn.op = "call"
    /\ fn' = [op |-> "_check_sell_signals", in |-> fn.in,
              out |-> CheckSellSignals(fn.in)]
    /\ UNCHANGED <<svars, account, orders, sm, sw, time, buyer, watchers,
                   bought, canbuy>>

\* the services idle, and a function called on its own with input in
Called(in) == [op |-> "call", in |-> in]

Idle ==
    /\ StrategyIdle
    /\ account = NoAccount
    /\ orders = <<>>
    /\ sm = NoSmartSell
    /\ sw = NoSell
    /\ time = 0
    /\ buyer = [c \in Callers |-> NoBuyer]
    /\ watchers = <<>>
    /\ bought = NoBought
    /\ canbuy = NoCanBuy

InitSignals == Idle /\ \E in \in SignalInputs : fn = Called(in)

NextSignals == CheckSellSignalsCall

SpecSignals == InitSignals /\ [][NextSignals]_vars

\* ------------------------------------------------- pattern evaluation
\* what validate_data reads: the price (0.0 for a missing key or a failed
\* read) and the number of stored candles
MinCandles == 5
CandleCounts == {0, MinCandles - 1, MinCandles}
DataReads == [price : {0, Min(PriceReads \ {0})}, candles : CandleCounts]

\* declared weights of a pattern's criteria, in hundredths: the four criteria
\* of EarlyParabolicPattern, and a list of two criteria
EarlyParabolicWeights == <<30, 25, 25, 20>>
CriteriaLists == {EarlyParabolicWeights, <<60, 40>>}

\* what a criterion's evaluator does: it raises (NoneNum) or returns a score,
\* in hundredths
CriterionOutcomes == {NoneNum, 0, 100}

\* mutant: less than five candles are enough
ValidateData_any_candles(data) ==
    /\ data.price # 0
    /\ data.candles # 0

\* BasePattern.validate_data
ValidateData(data) ==
    /\ data.price # 0
    /\ data.candles # 0
    /\ ~(data.candles < MinCandles)

\* the criteria of evaluate_criteria whose evaluator returned
Returned(outcomes) == {i \in 1..Len(outcomes) : outcomes[i] # NoneNum}

RECURSIVE SumOver(_, _)
SumOver(f, S) ==
    IF S = {} THEN 0
    ELSE LET i == CHOOSE x \in S : TRUE IN f[i] + SumOver(f, S \ {i})

\* mutant: a criterion whose evaluator raises counts as a score of 0
CountedCriteria_all(outcomes) == 1..Len(outcomes)

\* the criteria that enter the two sums of evaluate_criteria
CountedCriteria(outcomes) == Returned(outcomes)

\* BasePattern.evaluate_criteria: total_score, in hundredths (rounded down)
EvaluateCriteria(data, weights, outcomes) ==
    IF ~ValidateData(data)
    THEN 0
    ELSE LET counted == CountedCriteria(outcomes)
             total_score == SumOver([i \in 1..Len(weights) |->
                                       IF outcomes[i] = NoneNum THEN 0
                                       ELSE outcomes[i] * weights[i]], counted)
             total_weight == SumOver(weights, counted)
         IN IF total_weight = 0 THEN 0 ELSE total_score \div total_weight

\* one evaluation of the pattern: first and second are the reads of the two
\* validate_data calls (in evaluate and in evaluate_criteria), outcomes what
\* the evaluators do, price the read of get_targets, ai the oracle's state
EvaluationInputs ==
    [kind : {"pattern"}, first : DataReads, second : DataReads,
     outcomes : [1..Len(EarlyParabolicWeights) -> CriterionOutcomes],
     price : {Min(PriceReads \ {0})}, ai : AIPredictions]

\* one call of evaluate_criteria with a list of criteria
CriteriaInputs ==
    UNION {[kind : {"criteria"}, data : DataReads, weights : {w},
            outcomes : [1..Len(w) -> CriterionOutcomes]] : w \in CriteriaLists}

\* EarlyParabolicPattern.evaluate
PatternEvaluate(in) ==
    IF ~ValidateData(in.first)
    THEN DefaultResult(PatternOrder[1])
    ELSE Evaluate(PatternOrder[1],
                  EvaluateCriteria(in.second, EarlyParabolicWeights, in.outcomes),
                  in.price, {})

\* the call of evaluate_criteria
EvaluateCriteriaCall ==
    /\ fn.op = "call"
    /\ fn.in.kind = "criteria"
    /\ fn' = [op |-> "evaluate_criteria", in |-> fn.in,
              total_score |-> EvaluateCriteria(fn.in.data, fn.in.weights,
                                               fn.in.outcomes)]
    /\ UNCHANGED <<svars, account, orders, sm, sw, time, buyer, watchers,
                   bought, canbuy>>

\* line 29 of evaluate_all_patterns: pattern.evaluate
PatternEvaluateCall ==
    /\ fn.op = "call"
    /\ fn.in.kind = "pattern"
    /\ fn' = [op |-> "evaluate", in |-> fn.in, result |-> PatternEvaluate(fn.in)]
    /\ UNCHANGED <<svars, account, orders, sm, sw, time, buyer, watchers,
                   bought, canbuy>>

\* lines 30-44 of evaluate_all_patterns: a result below min_score is dropped
SkipPattern ==
    /\ fn.op = "evaluate"
    /\ ~(fn.result.match_score >= MinScore)
    /\ fn' = [op |-> "evaluate_all_patterns", in |-> fn.in,
              result |-> fn.result, patterns |-> <<>>]
    /\ UNCHANGED <<svars, account, orders, sm, sw, time, buyer, watchers,
                   bought, canbuy>>

\* lines 30-44 of evaluate_all_patterns: the result is blended and appended
EnhancePattern ==
    /\ fn.op = "evaluate"
    /\ fn.result.match_score >= MinScore
    /\ LET ai_probability == GetAIEnhancedProbability(fn.result, fn.in.ai)
       IN fn' = [op |-> "evaluate_all_patterns", in |-> fn.in,
                 result |-> fn.result, ai_probability |-> ai_probability,
                 patterns |-> <<[fn.result EXCEPT
                                   !.probability = ai_probability.success_probability]>>]
    /\ UNCHANGED <<svars, account, orders, sm, sw, time, buyer, watchers,
                   bought, canbuy>>

\* lines 24-29 of evaluate_strategy_lock: whether a strategy is locked
EvaluateStrategyLockCall ==
    /\ fn.op = "evaluate_all_patterns"
    /\ fn' = [op |-> "evaluate_strategy_lock", in |-> fn.in,
              result |-> fn.result, patterns |-> fn.patterns,
              locks |-> /\ fn.patterns # <<>>
                        /\ fn.patterns[1].match_score >= MinScore]
    /\ UNCHANGED <<svars, account, orders, sm, sw, time, buyer, watchers,
                   bought, canbuy>>

InitPattern == Idle /\ \E in \in EvaluationInputs \cup CriteriaInputs : fn = Called(in)

NextPattern ==
    \/ EvaluateCriteriaCall
    \/ PatternEvaluateCall
    \/ SkipPattern
    \/ EnhancePattern
    \/ EvaluateStrategyLockCall

SpecPattern == InitPattern /\ [][NextPattern]_vars

\* ------------------------------------------------------------ next target
\* the current targets _calculate_next_target is called with, and the last
\* ATR value it can read (None for a missing key)
CurrentTargets == {10000000, 10200000, 10300000, 10400000, 10450000, 10480000,
                   10500000}
TargetATRs == ATRReads \cup {100000}

NextTargetInputs ==
    [levels : KeyLevelReads, atr : TargetATRs, current_target : CurrentTargets]

\* one call of _calculate_next_target; out is NoneNum when it returns None
CalculateNextTargetCall ==
    /\ fn.op = "call"
    /\ fn' = [op |-> "_calculate_next_target", in |-> fn.in,
              out |-> CalculateNextTarget(fn.in.levels, fn.in.atr,
                                          fn.in.current_target)]
    /\ UNCHANGED <<svars, account, orders, sm, sw, time, buyer, watchers,
                   bought, canbuy>>

InitTargets == Idle /\ \E in \in NextTargetInputs : fn = Called(in)

NextTargets == CalculateNextTargetCall

SpecTargets == InitTargets /\ [][NextTargets]_vars

\* ---------------------------------------------------------- trailing stop
\* the reads of lines 743-764 of check_sell_condition: ADX and ATR (NoneNum
\* for a missing key, 0 for a stored 0.0), the price, and smart_sell's
\* buy_price and highest_price
TrailADXs == {NoneNum, 0, 10, 19, 20, 25, 30, 31, 35}
TrailATRs == {NoneNum, 0, 500000}
TrailInputs ==
    [adx : TrailADXs, atr : TrailATRs, price : {9200000, 10000000},
     buy_price : {10000000}, highest_price : {10000000, 10800000}]

\* lines 743-764: the multiplier (doubled), the limit line and the test
LimitLineCall ==
    /\ fn.op = "call"
    /\ LET atr == EffectiveATR(fn.in.buy_price, fn.in.atr)
       IN fn' = [op |-> "limit_line", in |-> fn.in, atr |-> atr,
                 twice_multiplier |-> TwiceATRMultiplier(fn.in.adx),
                 limit_line |-> LimitLine(fn.in.highest_price, atr, fn.in.adx),
                 is_below_limit_line |->
                     BelowLimitLine(fn.in.price, fn.in.highest_price, atr,
                                    fn.in.adx)]
    /\ UNCHANGED <<svars, account, orders, sm, sw, time, buyer, watchers,
                   bought, canbuy>>

InitTrail == Idle /\ \E in \in TrailInputs : fn = Called(in)

NextTrail == LimitLineCall

SpecTrail == InitTrail /\ [][NextTrail]_vars

\* -------------------------------------------------------- metrics refresh
\* the strategy dicts _update_strategy_metrics is called with: a strategy as
\* locked at either price, and the same after one target update
LockedStrategies ==
    {NewStrategy(Evaluate(PatternOrder[1], MinScore, price, {}), price, 1) :
        price \in PriceReads \ {0}}
MetricStrategies ==
    LockedStrategies
    \cup {UpdateTarget(s, s.target_price + Max(ATRReads)).s : s \in LockedStrategies}

\* the strategy and what the fresh evaluation reads; [raise |-> TRUE] is an
\* evaluation that fails
MetricInputs ==
    [strategy : MetricStrategies,
     metrics : PatternInputs \cup {[raise |-> TRUE]}]

UpdateStrategyMetricsCall ==
    /\ fn.op = "call"
    /\ fn' = [op |-> "_update_strategy_metrics", in |-> fn.in,
              current_pattern |-> EvaluatePattern(fn.in.strategy.name, fn.in.metrics),
              out |-> UpdateStrategyMetrics(
                          fn.in.strategy,
                          EvaluatePattern(fn.in.strategy.name, fn.in.metrics))]
    /\ UNCHANGED <<svars, account, orders, sm, sw, time, buyer, watchers,
                   bought, canbuy>>

InitMetrics == Idle /\ \E in \in MetricInputs : fn = Called(in)

NextMetrics == UpdateStrategyMetricsCall

SpecMetrics == InitMetrics /\ [][NextMetrics]_vars

\* ================================================================ claims
\* the lock times of the archived strategies
Archived == {history[i].lock_time : i \in 1..Len(history)}

\* the strategies locked so far that are not archived as COMPLETED
Uncompleted == {t \in 1..clock : t \notin Archived}

SameStrategy == slot # None /\ slot' # None /\ slot'.lock_time = slot.lock_time

C2_CompletedOnce ==
    /\ \A i, j \in 1..Len(history) :
          history[i].lock_time = history[j].lock_time => i = j
    /\ \A i, j \in 1..Len(db) : db[i].lock_time = db[j].lock_time => i = j

\* C3: COMPLETED is final: no step writes an archived strategy into the
\* active slot, the slot never holds a COMPLETED strategy, and archived
\* entries never change.
C3_CompletedIsFinal ==
    [][ /\ (slot' # slot /\ slot' # None) => slot'.lock_time \notin Archived
        /\ slot'.state # COMPLETED
        /\ Len(history') >= Len(history)
        /\ \A i \in 1..Len(history) : history'[i] = history[i] ]_vars

\* C4: completion is idempotent: a completion invoked on a strategy that is
\* already archived as COMPLETED appends no history entry.
C4_CompletionIdempotent ==
    [][ \A l \in Loops :
          (/\ pc[l] = "evaluate" /\ pc'[l] = "persist"
           /\ cur[l].lock_time \in Archived)
          => history' = history ]_vars

\* C5: target_price of the LOCKED strategy never decreases from one state of
\* the slot to the next.
C5_TargetNeverDecreases ==
    [][SameStrategy => slot'.target_price >= slot.target_price]_vars

\* C5 witness: the target of the active strategy has been raised twice.
C5_Witness ==
    /\ slot # None /\ slot.state = LOCKED
    /\ slot.current_target_index = 2
    /\ slot.target_price > slot.target_history[1].price

\* C6: stop_price of the active strategy never decreases; a change of it is
\* a strict raise.
C6_StopNeverDecreases ==
    [][SameStrategy => slot'.stop_price >= slot.stop_price]_vars

\* C6 witness: a tick has ratcheted the stop: the stop is none of the stops
\* a pattern sets at lock time.
C6_Witness ==
    /\ slot # None /\ slot.state = LOCKED /\ last[1].op = "hold"
    /\ slot.stop_price \notin {GetTargets(slot.name, p, {}).stop : p \in PriceReads}

\* C7: a tick that locks leaves a LOCKED strategy whose target_history is
\* seeded with the initial target, and has published 'entry' for it exactly
\* when the blended probability is at least 0.7 (a lock happens exactly when
\* the first pattern's match_score is at least 65: ClearsThreshold).
C7_LockSeedsLadder ==
    \A l \in Loops : last[l].op = "lock" /\ pc[l] = "idle" /\ slot # None =>
        /\ slot.state = LOCKED
        /\ slot.match_score >= MinScore
        /\ slot.target_history = <<TargetLevel(slot.target_price)>>
        /\ (published[<<"entry", slot.lock_time>>] = 1
              <=> slot.probability >= EntryProbability)

\* C8: a tick that observes price >= target_price on a LOCKED strategy with a
\* recorded buy ends by advancing the ladder or by completing the strategy
\* with completion_type = target.
C8_ReachedAdvancesOrCompletes ==
    \A l \in Loops : last[l].reached => last[l].op \in {"target", "exit_target"}

\* C9: target_history never has more than max_targets entries, in the active
\* slot and in the archive.
C9_LadderBounded ==
    /\ slot # None => Len(slot.target_history) <= max_targets
    /\ \A i \in 1..Len(history) : Len(history[i].target_history) <= max_targets

\* C9 witness: a ladder of max_targets entries whose last target is reached.
C9_Witness ==
    /\ Len(history) > 0
    /\ Len(history[1].target_history) = max_targets
    /\ history[1].completion_type = "target"

\* C10: current_target_index of the active strategy is a valid index into
\* target_history, in the slot and after from_dict.
C10_IndexValid ==
    slot # None =>
        /\ slot.current_target_index >= 0
        /\ slot.current_target_index < Len(slot.target_history)
        /\ FromDict(slot).current_target_index < Len(FromDict(slot).target_history)

C12_CompletionClearsSlot ==
    /\ \A l \in Loops :
          /\ (last[l].ctype # "none" /\ pc[l] = "idle") => slot = None
          /\ pc[l] \in {"persist", "clear"} =>
                (cur[l].lock_time \in Archived /\ slot # None)
    /\ \A i \in 1..Len(db) : db[i].lock_time \in Archived

\* ------------------------------------------------------- exit manager
\* the step in which the circuit-breaker check of smart_sell trips
CircuitTrips == sm.pc = "loop" /\ sm' # sm /\ sm'.tripped

\* C13: in every iteration of smart_sell in which the price is below 0.90 x
\* buy price, the sell of the full remaining quantity is issued: once the
\* check has tripped, the sell-with-retry call of the circuit breaker for
\* the whole remaining quantity is running, whatever check_sell_condition
\* would say.
C13_CircuitBreakerSells ==
    (sm.tripped /\ sm.pc # "done") =>
        (sw # NoSell /\ sw.why = "circuit" /\ sw.quantity = sm.remaining_qty)

\* C14: the circuit breaker is unconditional: whenever its check trips, the
\* step starts its sell, whatever trading_enabled and the cached position
\* list are.
C14_CircuitBreakerUnconditional ==
    [][CircuitTrips => (sw' # NoSell /\ sw'.why = "circuit")]_vars

\* the step in which the sell asked for by a profit-target check is executed
ProfitTargetSold ==
    /\ sw.pc = "monitor" /\ sw.why = "condition" /\ sw' = NoSell
    /\ sm.chk.seen /\ sm.chk.profit

\* the profit-target rule of check_sell_condition, for every read it can
\* make with ATR and the order book available
ProfitTargetRule(buy_price, highest_price, remaining_qty) ==
    \A in \in CheckInputs :
        (in.atr # NoneNum /\ in.atr > 0 /\ in.orderbook # NoBook
         /\ in.price > buy_price + MaxOf((in.atr * 3) \div 2, (buy_price \div 100) * 3))
        => LET r == CheckSellCondition(in, buy_price, highest_price, remaining_qty)
           IN /\ r.sell
              /\ r.qty = (IF remaining_qty \div 2 > 0 THEN remaining_qty \div 2
                          ELSE remaining_qty)

\* C15: with ATR available the profit threshold is buy_price + max(1.5 x
\* ATR, 3% of buy_price); a price above it makes the exit manager sell half
\* of the remaining quantity; once that sell is executed and shares remain,
\* buy_price is the realized sell price, the price of the order that filled.
C15_DynamicProfitTarget ==
    [][ /\ sm'.pc = "check" =>
              ProfitTargetRule(sm'.buy_price, sm'.highest_price, sm'.remaining_qty)
        /\ (ProfitTargetSold /\ sm'.remaining_qty > 0) =>
              sm'.buy_price = orders[sw.order].price ]_vars

\* what the claim C16 says check_sell_condition returns for one read, below
\* the profit target and with an order-book snapshot
ExitRule(in, buy_price, highest_price, remaining_qty) ==
    LET atr == IF in.atr # NoneNum /\ in.atr > 0 THEN in.atr
               ELSE (buy_price \div 100) * 2
        breakdown == /\ in.vwap # NoneNum /\ in.vwap > 0
                     /\ 4 * in.price < 4 * in.vwap - 3 * atr
        breach == BelowLimitLine(in.price, highest_price, atr, in.adx)
        r == CheckSellCondition(in, buy_price, highest_price, remaining_qty)
    IN /\ breakdown => (r.sell /\ r.qty = remaining_qty)
       /\ (breach /\ ~breakdown) =>
             /\ r.sell <=> (in.orderbook.imbalance < 60 /\ ~in.strong_buy)
             /\ r.sell => r.qty = remaining_qty
       /\ (~breach /\ ~breakdown) => ~r.sell

AlreadyBought == "Already bought in the last 60 seconds"

\* C17 as stated: a buy attempt within 60 seconds of a prior buy of the
\* ticker is rejected with the 'already bought in the last 60 seconds'
\* reason, whatever happened to the first order at the venue.
C17_DuplicateEntryRejected ==
    (canbuy.seen /\ canbuy.prior) => canbuy.result = AlreadyBought

\* C17: with trading enabled, a buy attempt within 60 seconds of a prior
\* buy of the ticker is rejected with the 'already bought in the last 60
\* seconds' reason, unless cancel_unfilled_order has cancelled an unfilled
\* buy order since and so cleared the timestamp.
C17_DuplicateEntryRejectedUnlessCancelled ==
    (canbuy.seen /\ canbuy.prior /\ canbuy.enabled /\ ~canbuy.cleared)
        => canbuy.result = AlreadyBought

\* C17 witness: five seconds after a buy that has filled, a second attempt
\* is rejected for the 60-second window.
C17_Witness ==
    /\ canbuy.seen /\ canbuy.prior /\ canbuy.enabled /\ ~canbuy.cleared
    /\ canbuy.at = CancelAfter /\ bought.at = 0
    /\ canbuy.result = AlreadyBought
    /\ Len(orders) = 1 /\ orders[1].status = "FILLED_ALL"

\* C18: two triggers processed concurrently place at most one buy order: no
\* other buy order is placed between a call's can_buy and the order it
\* places itself.
C18_AtMostOneBuyOrder ==
    \A c \in Callers :
        buyer[c].pc = "stamp" => buyer[c].order = buyer[c].before + 1

\* C19: can_buy rejects with a reason whenever trading is disabled, the
\* ticker was bought in the last 60 seconds, a position is held or the trade
\* amount exceeds the settled balance; it succeeds exactly when none of
\* these holds, and it never raises.
C19_CanBuyTotal ==
    canbuy.seen =>
        LET exceeds == canbuy.balance # NoneNum /\ TradingAmount > canbuy.balance
            rejected == ~canbuy.enabled \/ canbuy.recent \/ canbuy.held \/ exceeds
        IN /\ canbuy.result # "TypeError"
           /\ rejected => canbuy.result \notin {"", "TypeError"}
           /\ canbuy.result = "" <=> ~rejected

\* C20: a buy order whose cancel_unfilled_order thread has ended is not
\* open, and if shares were bought on it the exit manager was launched; a
\* thread that is cancelling has an order the venue can still cancel.
C20_BuyOrderResolved ==
    \A i \in 1..Len(watchers) :
        LET w == watchers[i]
            order == orders[w.order]
        IN /\ w.pc \in {"absent", "launched", "cancelled"} =>
                 /\ order.status \notin OpenStatuses
                 /\ order.dealt > 0 => w.pc = "launched"
           /\ w.pc = "cancel" => order.status \in OpenStatuses

\* ------------------------------------------------------ sell with retry
\* the quantity filled so far on the orders of the running sell-with-retry
\* call: the SELL orders placed since its first one
CallFilled ==
    IF sw = NoSell \/ sw.first = 0 THEN 0
    ELSE Dealt(orders, "SELL", Len(orders)) - Dealt(orders, "SELL", sw.first - 1)

\* the step in which place_sell_order_with_retry returns RET_OK
SellSucceeds == sw # NoSell /\ sw.pc = "monitor" /\ sw' = NoSell

\* C21: sell-with-retry reports success, and decrements the held quantity,
\* only when the whole requested quantity has been filled at the venue, for
\* every sequence of statuses seen while monitoring.
C21_SuccessMeansFilled ==
    [][SellSucceeds => CallFilled >= sw.quantity]_vars

\* C22: the quantity filled across all orders of one sell-with-retry call
\* never exceeds the requested quantity.
C22_NeverOverfilled ==
    sw # NoSell => CallFilled <= sw.quantity

\* C23: a venue rejection never drops the sell: a call in its placing loop
\* stays in the call, with or without an order-book snapshot.
C23_RejectionRetried ==
    [][(sw # NoSell /\ sw.pc = "place") => sw' # NoSell]_vars

\* C24: a retry loop can always end: while the cancel loop of sell-with-
\* retry runs, its order is one whose cancel the venue can acknowledge.
C24_RetryLoopsTerminate ==
    (sw # NoSell /\ sw.pc = "cancel") => ENABLED CancelSellOrder

\* ----------------------------------------------------------- smart_sell
\* C25: smart_sell has no timeout: once started it never stops short of
\* returning, it returns only with remaining quantity 0, and an exception in
\* an iteration or a failed sell leaves it looping.
C25_RunsUntilZero ==
    [][ /\ sm.pc # "off" => sm'.pc # "off"
        /\ sm'.pc = "done" => sm'.remaining_qty = 0
        /\ (sm.pc = "done") => sm'.pc = "done"
        /\ (sw # NoSell /\ sw.pc = "place" /\ sw' = NoSell) =>
              (sm'.pc = "loop" /\ sm'.remaining_qty = sm.remaining_qty)
        /\ (sm.pc \in {"loop", "check"} /\ sw' = NoSell /\ sm' # sm) =>
              (sm'.pc \in {"loop", "check"} /\ sm'.remaining_qty = sm.remaining_qty)
      ]_vars

\* C25 witness: smart_sell has returned with nothing remaining after a
\* half sell and a second sell, each on its own order.
C25_Witness ==
    /\ sm.pc = "done" /\ sm.remaining_qty = 0 /\ sw = NoSell
    /\ sm.buy_price # FillPrice
    /\ Len(orders) = 3

\* ---------------------------------------------------------- sell signals
\* the case of C26: a call of _check_sell_signals with the price below VWAP
\* and below the short EMA, and an aggressor ratio of 0.6
BelowWithBuyers ==
    /\ fn.op = "_check_sell_signals"
    /\ fn.in.current_price < fn.in.vwap
    /\ fn.in.current_price < (IF fn.in.ema9 # 0 THEN fn.in.ema9 ELSE fn.in.vwap)
    /\ fn.in.tape.buy_vol * 10 = (fn.in.tape.buy_vol + fn.in.tape.sell_vol) * 6
    /\ fn.in.tape.buy_vol > 0

Blended == fn.op = "evaluate_all_patterns" /\ fn.patterns # <<>>

\* the oracle is unavailable: an exception inside the blend, or no model
OracleUnavailable == Blended /\ fn.in.ai.kind \in {"raise", "fallback"}

C28_BlendWeights ==
    (Blended /\ fn.in.ai.kind # "raise") =>
        LET heuristic_prob == fn.result.probability
            model_backed == fn.in.ai.kind = "ok"
            ai_prob == IF model_backed
                       THEN fn.in.ai.success_probability
                       ELSE (heuristic_prob * fn.result.match_score) \div 100
            w_ai == IF model_backed THEN 7 ELSE 3
        IN /\ fn.ai_probability.ml_model_used = model_backed
           /\ fn.ai_probability.success_probability =
                  (ai_prob * w_ai + heuristic_prob * (10 - w_ai)) \div 10
           /\ fn.patterns[1].probability = fn.ai_probability.success_probability

\* C28 witness: a model-backed answer of 0.9 blended with a heuristic
\* probability of 0.7 gives 0.84.
C28_Witness ==
    /\ Blended
    /\ fn.in.ai.kind = "ok"
    /\ fn.result.probability = 700
    /\ fn.patterns[1].probability = 840


\* ------------------------------------------------------------ match score
\* the weighted score of the criteria in S, in hundredths; 0 with no weight
WeightedScore(weights, outcomes, S) ==
    LET total_score == SumOver([i \in 1..Len(weights) |->
                                  IF outcomes[i] = NoneNum THEN 0
                                  ELSE outcomes[i] * weights[i]], S)
        total_weight == SumOver(weights, S)
    IN IF total_weight = 0 THEN 0 ELSE total_score \div total_weight

\* a finished call of evaluate_criteria whose data check passed
CriteriaScored == fn.op = "evaluate_criteria" /\ ValidateData(fn.in.data)

\* a pattern that evaluate_all_patterns has evaluated with both of its data
\* checks passing
PatternScored ==
    /\ fn.op = "evaluate_all_patterns"
    /\ ValidateData(fn.in.first)
    /\ ValidateData(fn.in.second)

\* C29 as stated: the match score is 100 x sum(w_i x s_i) / sum(w_i) over all
\* declared criteria, and a pattern scoring below 65 returns the zero-score
\* default and is omitted by evaluate_all_patterns.
C29_ScoreOverDeclaredCriteria ==
    /\ CriteriaScored =>
           fn.total_score = WeightedScore(fn.in.weights, fn.in.outcomes,
                                          1..Len(fn.in.weights))
    /\ PatternScored =>
           LET score == WeightedScore(EarlyParabolicWeights, fn.in.outcomes,
                                      1..Len(EarlyParabolicWeights))
           IN IF score < MinScore
              THEN fn.result = DefaultResult(PatternOrder[1]) /\ fn.patterns = <<>>
              ELSE fn.result.match_score = score /\ Len(fn.patterns) = 1

\* C29: the match score is 100 x sum(w_i x s_i) / sum(w_i) over the declared
\* criteria whose evaluator returned (a criterion whose evaluator raises is
\* left out with its weight, and the score is 0 when none returned); weights
\* 0.6/0.4 with scores 1.0/0.0 give 60; a pattern scoring below 65 returns
\* the zero-score default and is omitted by evaluate_all_patterns.
C29_ScoreOverReturnedCriteria ==
    /\ CriteriaScored =>
           /\ fn.total_score = WeightedScore(fn.in.weights, fn.in.outcomes,
                                             Returned(fn.in.outcomes))
           /\ (fn.in.weights = <<60, 40>> /\ fn.in.outcomes = <<100, 0>>)
                  => fn.total_score = 60
    /\ PatternScored =>
           LET score == WeightedScore(EarlyParabolicWeights, fn.in.outcomes,
                                      Returned(fn.in.outcomes))
           IN IF score < MinScore
              THEN fn.result = DefaultResult(PatternOrder[1]) /\ fn.patterns = <<>>
              ELSE fn.result.match_score = score /\ Len(fn.patterns) = 1

\* C29 witness: the criteria of weight 0.3 and 0.25 score 1.0 and the other
\* two 0.0: the pattern scores 55, returns the default and is omitted.
C29_Witness ==
    /\ PatternScored
    /\ fn.in.outcomes = <<100, 100, 0, 0>>
    /\ fn.result = DefaultResult(PatternOrder[1])
    /\ fn.patterns = <<>>


\* ------------------------------------------------------ data prerequisites
\* a read of the pattern's data that lacks a prerequisite: no (or zero)
\* price, or fewer than five candles
Lacking(data) == data.price = 0 \/ data.candles < 5

\* an evaluation of the pattern that finds its prerequisites missing, at its
\* own data check or at the one of the scoring
PrerequisitesMissing ==
    /\ fn.op \in {"call", "evaluate", "evaluate_all_patterns",
                   "evaluate_strategy_lock"}
    /\ fn.in.kind = "pattern"
    /\ Lacking(fn.in.first) \/ Lacking(fn.in.second)

C31_StaleTicksRejected ==
    (fn.op = "_check_sell_signals" /\ fn.in.tick_age > 60) => fn.out = "None"


\* ------------------------------------------------------------ next target
\* C32: the candidate next target is the lowest resistance strictly above the
\* current target if there is one; otherwise current_target + 1.5 x ATR if
\* ATR is available and positive; otherwise current_target x 1.02, also when
\* ATR is unavailable; a candidate is always produced and is strictly greater
\* than the current target.
C32_NextTargetCandidate ==
    fn.op = "_calculate_next_target" =>
        LET above == {lv.price : lv \in {x \in fn.in.levels :
                          x.type = "resistance" /\ x.price > fn.in.current_target}}
            candidate ==
                IF above # {}
                THEN CHOOSE x \in above : \A y \in above : x <= y
                ELSE IF fn.in.atr # NoneNum /\ fn.in.atr > 0
                     THEN fn.in.current_target + (fn.in.atr * 3) \div 2
                     ELSE (fn.in.current_target \div 100) * 102
        IN /\ fn.out # NoneNum
           /\ fn.out = candidate
           /\ fn.out > fn.in.current_target


\* ---------------------------------------------------------- trailing stop
\* C33 as stated: the trailing-stop line is highest_price - multiplier x ATR,
\* the multiplier being 2.0 for every ADX > 30, 1.0 for every ADX < 20 and
\* 1.5 for every ADX from 20 to 30.
C33_MultiplierByADX ==
    (fn.op = "limit_line" /\ fn.in.adx # NoneNum) =>
        /\ fn.in.adx > 30 => fn.twice_multiplier = 4
        /\ fn.in.adx < 20 => fn.twice_multiplier = 2
        /\ (fn.in.adx >= 20 /\ fn.in.adx <= 30) => fn.twice_multiplier = 3
        /\ fn.limit_line = fn.in.highest_price - (fn.atr * fn.twice_multiplier) \div 2

\* C33: the trailing-stop line is highest_price - multiplier x ATR, the
\* multiplier being 2.0 for every ADX > 30, 1.0 for every ADX with
\* 0 < ADX < 20, and 1.5 otherwise: from 20 to 30, and when ADX is not
\* positive or unavailable; the ATR is the stored one when it is positive and
\* 2% of the reference buy price otherwise.
C33_MultiplierByPositiveADX ==
    fn.op = "limit_line" =>
        LET positive == fn.in.adx # NoneNum /\ fn.in.adx > 0
        IN /\ (positive /\ fn.in.adx > 30) => fn.twice_multiplier = 4
           /\ (positive /\ fn.in.adx < 20) => fn.twice_multiplier = 2
           /\ (positive /\ fn.in.adx >= 20 /\ fn.in.adx <= 30)
                  => fn.twice_multiplier = 3
           /\ ~positive => fn.twice_multiplier = 3
           /\ fn.atr = IF fn.in.atr # NoneNum /\ fn.in.atr > 0 THEN fn.in.atr
                       ELSE (fn.in.buy_price \div 100) * 2
           /\ fn.limit_line =
                  fn.in.highest_price - (fn.atr * fn.twice_multiplier) \div 2
           /\ fn.is_below_limit_line <=> fn.in.price <= fn.limit_line

\* C33 witness: ADX 35 and ATR 0.50 under a high of 10.80 put the line at
\* 9.80.
C33_Witness ==
    /\ fn.op = "limit_line"
    /\ fn.in.adx = 35
    /\ fn.in.atr = 500000
    /\ fn.in.highest_price = 10800000
    /\ fn.limit_line = 9800000


\* -------------------------------------------------------- metrics refresh
\* C34: the metrics refresh changes only match_score and probability (and
\* the description) of the strategy: entry_price, target_price, stop_price,
\* target_history, current_target_index, state and every other field are the
\* same before and after it, whether the fresh evaluation succeeds, returns
\* the zero-score default, or fails.
C34_RefreshFrame ==
    fn.op = "_update_strategy_metrics" =>
        /\ \A f \in DOMAIN fn.in.strategy \ {"match_score", "probability"} :
               fn.out[f] = fn.in.strategy[f]
        /\ DOMAIN fn.out = DOMAIN fn.in.strategy
        /\ fn.current_pattern = EmptyDict => fn.out = fn.in.strategy

\* C34 witness: a fresh evaluation at another price than the entry price has
\* changed the probability and left entry, target and stop as they were.
C34_Witness ==
    /\ fn.op = "_update_strategy_metrics"
    /\ fn.current_pattern # EmptyDict
    /\ fn.current_pattern.match_score >= MinScore
    /\ fn.current_pattern.entry_price # fn.in.strategy.entry_price
    /\ fn.current_pattern.target_price # fn.in.strategy.target_price
    /\ fn.out.probability # fn.in.strategy.probability
    /\ fn.out.entry_price = fn.in.strategy.entry_price
    /\ fn.out.target_price = fn.in.strategy.target_price
    /\ fn.out.stop_price = fn.in.strategy.stop_price


\* ----------------------------------------------------------- target ladder
\* C35: the ladder of the active strategy is well formed after any sequence
\* of ticks: the prices of target_history are strictly increasing, every
\* entry before current_target_index is achieved, the entry at
\* current_target_index is not, and target_price is the price of that entry.
C35_LadderWellFormed ==
    (slot # None /\ slot.state = LOCKED) =>
        LET h == slot.target_history
            i == slot.current_target_index + 1
        IN /\ i \in 1..Len(h)
           /\ \A j \in 1..(Len(h) - 1) : h[j].price < h[j + 1].price
           /\ \A j \in 1..(i - 1) : h[j].achieved
           /\ ~h[i].achieved
           /\ slot.target_price = h[i].price


\* ---------------------------------------------------- quantity conservation
\* the shares sold at the venue since the exit manager started
SoldAtVenue == Dealt(orders, "SELL", Len(orders))

\* the counters of smart_sell: remaining_qty stays within 0..filled quantity,
\* a requested sell has 0 < sell_qty <= remaining_qty, and the quantities of
\* the sells reported successful (what the account's held quantity has been
\* decreased by) and remaining_qty add up to the filled quantity
CountersConserved ==
    /\ 0 <= sm.remaining_qty /\ sm.remaining_qty <= FillQty
    /\ sw # NoSell => (0 < sw.quantity /\ sw.quantity <= sm.remaining_qty)
    /\ (FillQty - account.quantity) + sm.remaining_qty = FillQty

\* C36: in every iteration of smart_sell 0 <= remaining_qty <= filled
\* quantity, every sell it requests has 0 < sell_qty <= remaining_qty,
\* remaining_qty never increases, the successful sells and remaining_qty add
\* up to the filled quantity, and the exit manager never sells more shares
\* than were bought.
C36_QuantityConserved ==
    /\ [](CountersConserved /\ SoldAtVenue <= FillQty)
    /\ [][sm'.remaining_qty <= sm.remaining_qty]_vars


\* ------------------------------------------------------------ missing price
\* C37: when the price read returns its 0.0 default, the exit manager places
\* no sell order in that iteration: the circuit breaker does not fire on a
\* missing price, and no sell order is ever placed at a price that is not
\* positive.
C37_NoSellOnMissingPrice ==
    /\ (sw # NoSell /\ sw.why = "circuit") => sw.initial_price > 0
    /\ \A i \in 1..Len(orders) :
           orders[i].side = "SELL" => orders[i].price > 0


\* -------------------------------------------------------------- exit signal
\* C38: for each locked strategy at most one 'exit' trade signal is published
\* over its lifetime, whatever the stored entry price, the price feed and
\* the persistence layer do.
C38_AtMostOneExit ==
    \A k \in DOMAIN published : k[1] = "exit" => published[k] <= 1


\* ----------------------------------------------------------- held quantity
\* the account's held quantity as a ledger: never negative, 0 once the exit
\* manager has terminated
LedgerSound ==
    /\ account.quantity >= 0
    /\ sm.pc = "done" => account.quantity = 0

\* the ledger says "no position" only when no share is held at the venue (a
\* fill the monitor has not seen yet leaves the ledger behind the venue)
LedgerMatchesVenue == account.quantity = 0 => Held(orders) = 0

\* C39: the account's held quantity, set to the filled quantity when the buy
\* fills, is decreased by exactly the quantity of each sell that
\* sell-with-retry reports as successful, is never negative, is 0 when the
\* exit manager terminates, and is 0 only when the position has been fully
\* exited.
C39_HeldQuantityLedger ==
    /\ [](LedgerSound /\ LedgerMatchesVenue)
    /\ [][SellSucceeds => account'.quantity = account.quantity - sw.quantity]_vars


\* ---------------------------------------------------------------- buy time
\* C40: every strategy in the active slot has buy_time recorded from the
\* moment it is locked (it is its lock time), whether or not an 'entry'
\* signal was published for it; so the recorded-buy guards hold for every
\* LOCKED strategy.
C40_BuyTimeRecordedAtLock ==
    (slot # None /\ slot.state = LOCKED) =>
        /\ slot.buy_time # NoneNum
        /\ slot.buy_time = slot.lock_time
        /\ FromDict(slot).buy_time # NoneNum

\* C40 witness: a strategy locked with a blended probability below 0.7, for
\* which no 'entry' was published, has its buy_time recorded.
C40_Witness ==
    /\ slot # None /\ slot.state = LOCKED
    /\ slot.probability < EntryProbability
    /\ published[<<"entry", slot.lock_time>>] = 0
    /\ slot.buy_time = slot.lock_time
    /\ last[1].op = "lock"

====
